---- MODULE Spec2Model ----
(***************************************************************************)
(* Model of src/app.py: a Streamlit script that keeps a chat transcript    *)
(* (st.session_state.messages) and a ConversationBufferMemory              *)
(* (st.session_state.memory), forwards each question to a completion       *)
(* service and renders the reply or a fixed apology.                       *)
(*                                                                         *)
(* Texts are sequences of tokens.  A token is a piece of text; the tokens  *)
(* " " and "\n" are whitespace and the token "Error:" is the six           *)
(* characters the handler tests for with startswith.  No other token       *)
(* begins or ends with whitespace or begins with "Error:".                 *)
(*                                                                         *)
(* A script run is synchronous; pc is the statement it has reached.        *)
(* Exceptions are modelled where the script itself expects them: inside    *)
(* call_openrouter_api and inside the try block of the chat input handler  *)
(* (the rendering of the answer and save_context).  Statements outside a   *)
(* try block are taken to complete.  before and log are history variables: *)
(* they record the stores at handler entry and the outcome of each turn,   *)
(* and no statement of the script reads them.                              *)
(***************************************************************************)
EXTENDS Integers, Sequences, FiniteSets, TLC

\* Bound: number of turns accepted since session start or the last clear.
MaxTurns == 3

VARIABLES
    openrouter_api_key, \* value of os.getenv("OPENROUTER_API_KEY")
    pc,                 \* position of the script run
    remediation,        \* st.error text of the API key check is displayed
    session_keys,       \* keys present in st.session_state
    messages,           \* st.session_state.messages
    memory,             \* pairs saved in st.session_state.memory
    user_input,         \* value of st.chat_input in this run
    chat_history,       \* history text loaded from memory in this run
    request,            \* request posted to the completion service in this run
    response,           \* what requests.post produced in this run
    answer,             \* return value of call_openrouter_api in this run
    before,             \* messages and memory when the chat input handler was entered
    log                 \* turns completed since session start or the last clear

vars == <<openrouter_api_key, pc, remediation, session_keys, messages, memory,
          user_input, chat_history, request, response, answer, before, log>>

----------------------------------------------------------------------------
\* Text helpers

IsSpace(t) == t \in {" ", "\n"}

RECURSIVE lstrip(_)
lstrip(s) == IF s # <<>> /\ IsSpace(Head(s)) THEN lstrip(Tail(s)) ELSE s

RECURSIVE rstrip(_)
rstrip(s) == IF s # <<>> /\ IsSpace(s[Len(s)]) THEN rstrip(SubSeq(s, 1, Len(s) - 1)) ELSE s

\* str.strip()
strip(s) == rstrip(lstrip(s))

\* str.startswith(p)
startswith(s, p) == Len(s) >= Len(p) /\ SubSeq(s, 1, Len(p)) = p

----------------------------------------------------------------------------
\* Fixed texts of the program

SeedGreeting == <<"Hi! I'm your career counselor powered by DeepSeek.">>
ClearedGreeting == <<"Chat history cleared! Ask me about your career or education goals.">>
error_msg == <<"Sorry, I couldn't process your request.">>
ErrorPrefix == <<"Error:">>

Msg(role, content) == [role |-> role, content |-> content]

\* prompt_template.format(chat_history=..., input=...)
prompt_template(history, input) ==
    <<"You are an expert career counselor ...", "\n", "Conversation History:", "\n">>
        \o history
        \o <<"\n", "Student's Question:", "\n">>
        \o input
        \o <<"\n", "Answer:", "\n">>

----------------------------------------------------------------------------
\* Environment: credentials, questions, service behaviour

NoKey == "None"
Keys == {NoKey, "", "sk-or-key"}

\* variant: only a missing variable counts, an empty value passes
Falsy_OnlyNone(k) == k = NoKey

\* `not openrouter_api_key`
Falsy(k) == k = NoKey \/ k = ""

Inputs == { <<"What skills for data science?">>, <<"And for", " ", "web?">> }

\* message.content strings a success response may carry
Contents ==
    { <<>>,
      <<"\n", "Learn Python, SQL...", " ">>,
      <<"Error:", " ", "quota", " ">>,
      <<" ", "Error:", "x">> }

NoBody == [shape |-> "none", content |-> <<>>]
OkBody(c) == [shape |-> "ok", content |-> c]

\* What requests.post / raise_for_status / response.json() can produce.
\* exc: exception raised by requests.post; status: HTTP status; body.shape:
\* "ok" has choices[0].message.content a string, "notjson" is not JSON,
\* "nochoices" lacks choices[0].message.content, "null" has content null.
Responses ==
    { [exc |-> e, status |-> 0, body |-> NoBody] : e \in {"ConnectionError", "Timeout"} }
    \cup { [exc |-> "none", status |-> 500, body |-> OkBody(<<"Learn Python, SQL...">>)] }
    \cup { [exc |-> "none", status |-> 200, body |-> [shape |-> s, content |-> <<>>]] :
               s \in {"notjson", "nochoices", "null"} }
    \cup { [exc |-> "none", status |-> 200, body |-> OkBody(c)] : c \in Contents }

NoResponse == [exc |-> "none", status |-> 0, body |-> NoBody]

\* str(e) of the exception the call raises on r, <<>> when it raises none
ExceptionText(r) ==
    IF r.exc = "ConnectionError" THEN <<"Connection aborted.">>
    ELSE IF r.exc = "Timeout" THEN <<"Read timed out. (read timeout=30)">>
    ELSE IF r.status >= 400 THEN <<"500 Server Error: Internal Server Error for url">>
    ELSE IF r.body.shape = "notjson" THEN <<"Expecting value: line 1 column 1 (char 0)">>
    ELSE IF r.body.shape = "nochoices" THEN <<"'choices'">>
    ELSE IF r.body.shape = "null" THEN <<"'NoneType' object has no attribute 'strip'">>
    ELSE <<>>

\* the completion call got an answer
GotAnswer(r) == r.exc = "none" /\ r.status < 400 /\ r.body.shape = "ok"

ErrorTexts == { ExceptionText(r) : r \in { x \in Responses : ~GotAnswer(x) } }

\* variant: a failed call returns empty content instead of the error string
call_openrouter_api_Empty(r) ==
    IF GotAnswer(r) THEN strip(r.body.content) ELSE <<>>

\* call_openrouter_api, given what the request produced
call_openrouter_api(r) ==
    IF GotAnswer(r)
      THEN strip(r.body.content)
      ELSE ErrorPrefix \o <<" ">> \o ExceptionText(r)

----------------------------------------------------------------------------
\* ConversationBufferMemory

\* load_memory_variables({})["chat_history"]: the buffer string
RECURSIVE load_memory_variables(_)
load_memory_variables(mem) ==
    IF mem = <<>> THEN <<>>
    ELSE LET p == mem[Len(mem)]
             rest == load_memory_variables(SubSeq(mem, 1, Len(mem) - 1))
             turn == <<"Human: ">> \o p.input \o <<"\n", "AI: ">> \o p.output
         IN IF rest = <<>> THEN turn ELSE rest \o <<"\n">> \o turn

\* variant: the pair is not stored
save_context_Drop(mem, i, o) == mem

\* save_context({"input": i}, {"output": o})
save_context(mem, i, o) == Append(mem, [input |-> i, output |-> o])

----------------------------------------------------------------------------
\* Session state initialization, executed by every run that passes the key check

InitMessages(keys, m) ==
    IF "messages" \in keys THEN m ELSE <<Msg("assistant", SeedGreeting)>>

InitMemory(keys, mem) ==
    IF "memory" \in keys THEN mem ELSE <<>>

NoRequest == [prompt |-> <<>>, history |-> <<>>, input |-> <<>>, sent |-> FALSE]

Init ==
    /\ openrouter_api_key \in Keys
    /\ pc = "boot"
    /\ remediation = FALSE
    /\ session_keys = {}
    /\ messages = <<>>
    /\ memory = <<>>
    /\ user_input = <<>>
    /\ chat_history = <<>>
    /\ request = NoRequest
    /\ response = NoResponse
    /\ answer = <<>>
    /\ before = [messages |-> <<>>, memory |-> <<>>]
    /\ log = <<>>

\* First run of the script in a session: API key check, then session state
\* initialization; no widget was used, so neither handler runs.
StartSession ==
    /\ pc = "boot"
    /\ IF Falsy(openrouter_api_key)
         THEN /\ remediation' = TRUE
              /\ pc' = "halted"
              /\ UNCHANGED <<session_keys, messages, memory>>
         ELSE /\ session_keys' = session_keys \cup {"messages", "memory"}
              /\ messages' = InitMessages(session_keys, messages)
              /\ memory' = InitMemory(session_keys, memory)
              /\ pc' = "idle"
              /\ UNCHANGED remediation
    /\ UNCHANGED <<openrouter_api_key, user_input, chat_history, request,
                   response, answer, before, log>>

\* A run started by a chat input: key check and initialization again, then
\* the user message is appended.
SubmitInput(q) ==
    /\ pc = "idle"
    /\ ~Falsy(openrouter_api_key)
    /\ Len(log) < MaxTurns
    /\ user_input' = q
    /\ session_keys' = session_keys \cup {"messages", "memory"}
    /\ before' = [messages |-> InitMessages(session_keys, messages),
                  memory |-> InitMemory(session_keys, memory)]
    /\ messages' = Append(InitMessages(session_keys, messages), Msg("user", q))
    /\ memory' = InitMemory(session_keys, memory)
    /\ chat_history' = <<>>
    /\ request' = NoRequest
    /\ response' = NoResponse
    /\ answer' = <<>>
    /\ pc' = "input"
    /\ UNCHANGED <<openrouter_api_key, remediation, log>>

\* The history is loaded and the request is posted.
SendRequest ==
    /\ pc = "input"
    /\ chat_history' = load_memory_variables(memory)
    /\ request' = [prompt |-> prompt_template(chat_history', user_input),
                   history |-> chat_history',
                   input |-> user_input,
                   sent |-> TRUE]
    /\ pc' = "waiting"
    /\ UNCHANGED <<openrouter_api_key, remediation, session_keys, messages, memory,
                   user_input, response, answer, before, log>>

\* requests.post returns or raises (at the latest on the timeout) and
\* call_openrouter_api returns.
ReceiveResponse(r) ==
    /\ pc = "waiting"
    /\ response' = r
    /\ answer' = call_openrouter_api(r)
    /\ pc' = "answered"
    /\ UNCHANGED <<openrouter_api_key, remediation, session_keys, messages, memory,
                   user_input, chat_history, request, before, log>>

\* variant: the exception is not caught and ends the script
HandleException_Propagates ==
    /\ pc' = "halted"
    /\ UNCHANGED <<messages, memory, log>>

\* variant: the handler also saves the apology to memory
HandleException_Saves ==
    /\ messages' = Append(messages, Msg("assistant", error_msg))
    /\ log' = Append(log, [input |-> user_input, output |-> error_msg, ok |-> FALSE])
    /\ pc' = "idle"
    /\ memory' = save_context(memory, user_input, error_msg)

\* except Exception: the apology is appended and the run ends
HandleException ==
    /\ messages' = Append(messages, Msg("assistant", error_msg))
    /\ log' = Append(log, [input |-> user_input, output |-> error_msg, ok |-> FALSE])
    /\ pc' = "idle"
    /\ UNCHANGED memory

\* variant: the answer is appended without the test for the error prefix
CheckAnswer_NoPrefixTest ==
    /\ pc = "answered"
    /\ messages' = Append(messages, Msg("assistant", answer))
    /\ pc' = "render"
    /\ UNCHANGED <<memory, log>>
    /\ UNCHANGED <<openrouter_api_key, remediation, session_keys, user_input,
                   chat_history, request, response, answer, before>>

\* The answer is tested for the error prefix, then appended.
CheckAnswer ==
    /\ pc = "answered"
    /\ IF startswith(answer, ErrorPrefix)
         THEN HandleException
         ELSE /\ messages' = Append(messages, Msg("assistant", answer))
              /\ pc' = "render"
              /\ UNCHANGED <<memory, log>>
    /\ UNCHANGED <<openrouter_api_key, remediation, session_keys, user_input,
                   chat_history, request, response, answer, before>>

\* st.markdown(answer) inside the try block; raises iff ~ok
RenderAnswer(ok) ==
    /\ pc = "render"
    /\ IF ok
         THEN /\ pc' = "save"
              /\ UNCHANGED <<messages, memory, log>>
         ELSE HandleException
    /\ UNCHANGED <<openrouter_api_key, remediation, session_keys, user_input,
                   chat_history, request, response, answer, before>>

\* memory.save_context inside the try block; raises iff ~ok
SaveContext(ok) ==
    /\ pc = "save"
    /\ IF ok
         THEN /\ memory' = save_context(memory, user_input, answer)
              /\ log' = Append(log, [input |-> user_input, output |-> answer, ok |-> TRUE])
              /\ pc' = "idle"
              /\ UNCHANGED messages
         ELSE HandleException
    /\ UNCHANGED <<openrouter_api_key, remediation, session_keys, user_input,
                   chat_history, request, response, answer, before>>

\* variant: the greeting is appended instead of replacing the transcript
ClearMessages_Append ==
    /\ pc = "idle"
    /\ ~Falsy(openrouter_api_key)
    /\ session_keys' = session_keys \cup {"messages", "memory"}
    /\ messages' = Append(InitMessages(session_keys, messages), Msg("assistant", ClearedGreeting))
    /\ memory' = InitMemory(session_keys, memory)
    /\ user_input' = <<>>
    /\ chat_history' = <<>>
    /\ request' = NoRequest
    /\ response' = NoResponse
    /\ answer' = <<>>
    /\ pc' = "clearing"
    /\ UNCHANGED <<openrouter_api_key, remediation, before, log>>

\* A run started by the "Clear Chat History" button: key check and
\* initialization, no chat input, then the transcript is replaced.
ClearMessages ==
    /\ pc = "idle"
    /\ ~Falsy(openrouter_api_key)
    /\ session_keys' = session_keys \cup {"messages", "memory"}
    /\ messages' = <<Msg("assistant", ClearedGreeting)>>
    /\ memory' = InitMemory(session_keys, memory)
    /\ user_input' = <<>>
    /\ chat_history' = <<>>
    /\ request' = NoRequest
    /\ response' = NoResponse
    /\ answer' = <<>>
    /\ pc' = "clearing"
    /\ UNCHANGED <<openrouter_api_key, remediation, before, log>>

\* variant: the memory is not cleared
ClearMemory_Keep ==
    /\ pc = "clearing"
    /\ log' = <<>>
    /\ pc' = "idle"
    /\ UNCHANGED <<openrouter_api_key, remediation, session_keys, messages, memory,
                   user_input, chat_history, request, response, answer, before>>

\* memory.clear() and st.rerun(); the rerun uses no widget and ends idle.
ClearMemory ==
    /\ pc = "clearing"
    /\ memory' = <<>>
    /\ log' = <<>>
    /\ pc' = "idle"
    /\ UNCHANGED <<openrouter_api_key, remediation, session_keys, messages,
                   user_input, chat_history, request, response, answer, before>>

Next ==
    \/ StartSession
    \/ \E q \in Inputs : SubmitInput(q)
    \/ SendRequest
    \/ \E r \in Responses : ReceiveResponse(r)
    \/ CheckAnswer
    \/ \E ok \in BOOLEAN : RenderAnswer(ok)
    \/ \E ok \in BOOLEAN : SaveContext(ok)
    \/ ClearMessages
    \/ ClearMemory

Spec == Init /\ [][Next]_vars

\* The script run is synchronous: once started it proceeds statement by
\* statement, and requests.post returns or raises within its timeout.
RunSteps ==
    \/ SendRequest
    \/ \E r \in Responses : ReceiveResponse(r)
    \/ CheckAnswer
    \/ \E ok \in BOOLEAN : RenderAnswer(ok)
    \/ \E ok \in BOOLEAN : SaveContext(ok)
    \/ ClearMemory

FairSpec == Spec /\ WF_vars(StartSession) /\ WF_vars(RunSteps)

----------------------------------------------------------------------------
\* Definitions used by the properties

\* sub occurs in s as a contiguous piece
Contains(s, sub) ==
    \E i \in 1..(Len(s) + 1) :
        i + Len(sub) - 1 <= Len(s) /\ SubSeq(s, i, i + Len(sub) - 1) = sub

Between == pc = "idle"

\* a turn has run to its end in this run
TurnDone == pc = "idle" /\ request.sent

LastMsg == messages[Len(messages)]

GreetingOnly ==
    /\ Len(messages) = 1
    /\ messages[1].role = "assistant"
    /\ messages[1].content \in {SeedGreeting, ClearedGreeting}

IsOk(e) == e.ok

AllOk(l) == \A i \in DOMAIN l : l[i].ok

\* the (question, reply) pairs of the successful turns of l, in order
OkPairs(l) ==
    LET s == SelectSeq(l, IsOk)
    IN [i \in DOMAIN s |-> [input |-> s[i].input, output |-> s[i].output]]

UserMsg == Msg("user", user_input)

FullSuccess ==
    /\ messages = before.messages \o <<UserMsg, Msg("assistant", answer)>>
    /\ memory = Append(before.memory, [input |-> user_input, output |-> answer])

FullFailure ==
    /\ messages = before.messages \o <<UserMsg, Msg("assistant", error_msg)>>
    /\ memory = before.memory

----------------------------------------------------------------------------
\* C1 (as stated): between interactions the HistoryBuffer is empty if and
\* only if the Transcript contains only the single greeting.
C1_EmptyIffGreetingOnly ==
    Between => (memory = <<>> <=> GreetingOnly)

\* C1 (amended): between interactions a Transcript of only the greeting has
\* an empty HistoryBuffer, and the HistoryBuffer is empty if and only if no
\* turn since session start or the last clear completed successfully.
C1_EmptyIffNoSuccess ==
    Between =>
        /\ GreetingOnly => memory = <<>>
        /\ memory = <<>> <=> (\A i \in DOMAIN log : ~log[i].ok)
        /\ GreetingOnly <=> log = <<>>

\* a failed turn from the fresh session: buffer empty, transcript longer
C1_Witness ==
    /\ Between
    /\ memory = <<>>
    /\ Len(messages) = 3
    /\ messages[1].content = SeedGreeting
    /\ LastMsg.content = error_msg

\* C2: the session starts with exactly the seed message and an empty
\* HistoryBuffer, and after N successful turns with no clear and no failure
\* in between the Transcript is the greeting followed by N (user, assistant)
\* pairs, of length 1 + 2N, and the HistoryBuffer holds exactly those N pairs.
C2_SuccessfulTurns ==
    /\ [][(pc = "boot" /\ pc' = "idle") =>
             (messages' = <<Msg("assistant", SeedGreeting)>> /\ memory' = <<>>)]_vars
    /\ []((Between /\ AllOk(log)) =>
             /\ Len(messages) = 1 + 2 * Len(log)
             /\ Len(memory) = Len(log)
             /\ messages[1].role = "assistant"
             /\ \A k \in 1..Len(log) :
                    /\ messages[2 * k] = Msg("user", log[k].input)
                    /\ messages[2 * k + 1] = Msg("assistant", log[k].output)
                    /\ memory[k] = [input |-> log[k].input, output |-> log[k].output])

C2_Witness ==
    /\ Between
    /\ Len(log) = 2
    /\ AllOk(log)
    /\ messages[1].content = SeedGreeting
    /\ Len(messages) = 5
    /\ Len(memory) = 2

\* C3: a turn whose completion call failed leaves the Transcript two longer
\* (the question, then the fixed apology) and the HistoryBuffer as it was.
C3_FailedCall ==
    (TurnDone /\ ~GotAnswer(response)) => FullFailure

\* an HTTP 500 after an earlier successful turn
C3_Witness ==
    /\ TurnDone
    /\ response.status = 500
    /\ before.memory # <<>>
    /\ Len(messages) = Len(before.messages) + 2

\* C4: from the state in which the clear handler has replaced the Transcript
\* the only step is the one that empties the HistoryBuffer and ends the run,
\* so every state in which an interaction is accepted after a clear has the
\* Transcript equal to the post-clear greeting and the HistoryBuffer empty;
\* handlers start only between interactions.
C4_ClearResetsBoth ==
    /\ [][pc = "clearing" =>
             /\ pc' = "idle"
             /\ messages' = <<Msg("assistant", ClearedGreeting)>>
             /\ memory' = <<>>]_vars
    /\ [][(pc' \in {"input", "clearing"} /\ pc' # pc) => pc = "idle"]_vars
    /\ [](pc = "clearing" => messages = <<Msg("assistant", ClearedGreeting)>>)

\* a clear taken after a turn that started with a non-empty buffer
C4_Witness ==
    /\ Between
    /\ ~request.sent
    /\ messages = <<Msg("assistant", ClearedGreeting)>>
    /\ memory = <<>>
    /\ Len(before.memory) >= 1
    /\ Len(before.messages) >= 3

\* C5: whenever the service returned a success response with content c, the
\* turn appended exactly strip(c) as the assistant entry and recorded
\* (input, strip(c)); the apology is appended only when the call failed.
C5_SuccessDecidedByCall ==
    (TurnDone /\ GotAnswer(response)) =>
        /\ messages = before.messages
                        \o <<UserMsg, Msg("assistant", strip(response.body.content))>>
        /\ memory = Append(before.memory,
                           [input |-> user_input, output |-> strip(response.body.content)])

\* C6: every completed turn ended in full success or in full failure.
C6_AllOrNothing ==
    TurnDone => (FullSuccess \/ FullFailure)

\* C7: no assistant message carries the error text of a failed call: each is
\* a greeting, the apology or the trimmed content of a success response, and
\* none starts with the error prefix or contains an exception text.
C7_NoRawError ==
    \A i \in DOMAIN messages :
        messages[i].role = "assistant" =>
            /\ messages[i].content \in
                   {SeedGreeting, ClearedGreeting, error_msg} \cup { strip(c) : c \in Contents }
            /\ ~startswith(messages[i].content, ErrorPrefix)
            /\ \A e \in ErrorTexts : ~Contains(messages[i].content, e)

C7_Witness ==
    /\ TurnDone
    /\ response.status = 500
    /\ startswith(answer, ErrorPrefix)
    /\ LastMsg = Msg("assistant", error_msg)

\* C8: with the credential missing or empty the run halts with the
\* remediation text; no input is accepted, no clear processed, no request
\* posted and no session state created.
C8_HaltsWithoutKey ==
    openrouter_api_key \in {NoKey, ""} =>
        /\ pc \in {"boot", "halted"}
        /\ pc = "halted" => remediation
        /\ session_keys = {}
        /\ messages = <<>>
        /\ memory = <<>>
        /\ user_input = <<>>
        /\ ~request.sent

C8_Witness ==
    /\ openrouter_api_key = ""
    /\ pc = "halted"
    /\ remediation

C10_BufferIsSuccessfulTurns ==
    /\ Between => memory = OkPairs(log)
    /\ pc \in {"waiting", "answered", "render", "save"} =>
           /\ request.sent
           /\ request.history = load_memory_variables(OkPairs(log))
           /\ request.input = user_input
           /\ ~Contains(request.history, error_msg)

\* a request sent after one failed and one successful turn
C10_Witness ==
    /\ pc = "waiting"
    /\ Len(log) = 2
    /\ ~log[1].ok
    /\ log[2].ok
    /\ Len(memory) = 1

====
